---- MODULE Spec2Model ----
(***************************************************************************)
(* Model of the two CI helper scripts under .github/scripts:               *)
(*   filter_cppcheck_result.py  (diff-scoped filter of cppcheck findings)  *)
(*   convert_misra_rules.py     (MISRA deviation list -> suppression file) *)
(* Python lists are sequences, tuples are TLA+ tuples, a text is the       *)
(* sequence of its characters.  Every specification below drives one part  *)
(* of the scripts.                                                         *)
(***************************************************************************)
EXTENDS Integers, Sequences, FiniteSets, TLC

VARIABLES
    ranges,      \* is_line_in_ranges: the `ranges` argument
    line_num,    \* is_line_in_ranges: the `line_num` argument
    found,       \* is_line_in_ranges: the value returned
    rpc,         \* "build" while the caller builds the list, "done" after the call
    diff_output, \* parse_diff_ranges: the lines of its argument (diff_output.split("\n"))
    hunks,       \* what git wrote on each of those lines: <<kind, start, count>>
    parsed,      \* parse_diff_ranges: the list returned
    dpc,         \* "build" while git writes, "done" after parse_diff_ranges returned
    deviations,  \* the "deviations" list of the remote document: one token list per record
    fetched,     \* how urlopen / read / json.loads / data["deviations"] ended
    rules,       \* main: the list fetch_misra_rules returned
    suppress_file, \* the lines of the suppression file, <<"absent">> while not written
    cpc,         \* convert_misra_rules.py: "build", then "done" or "crashed"
    root,        \* the <error> elements of the cppcheck XML, in document order
    fault,       \* what goes wrong outside the diff: "none", "usage", "xml_missing", ...
    args,        \* the parsed command line: [range_valid, max_size]
    git,         \* per file, what `git diff -U0 range -- file` does
    cache,       \* file_ranges_cache when filter_errors_by_changed_lines ended
    filtered,    \* filtered_errors, as positions in root
    csv,         \* the CSV file: [written, rows, size]
    num_issues,  \* the value filter_cppcheck_results returned
    exit_status, \* the exit status of the filter script
    fpc          \* filter_cppcheck_result.py: "build", then "exited"

rangeVars == <<ranges, line_num, found, rpc>>
diffVars == <<diff_output, hunks, parsed, dpc>>
convVars == <<deviations, fetched, rules, suppress_file, cpc>>
filterVars ==
    <<root, fault, args, git, cache, filtered, csv, num_issues, exit_status, fpc>>
vars == <<rangeVars, diffVars, convVars, filterVars>>

\* The element of a one-element set: { e(x) : x \in {v} } computes v once and
\* names it x in e.
Only(S) == CHOOSE x \in S : TRUE

\* ---------------------------------------------------------------- bounds
\* Largest line number of the range lists handed to is_line_in_ranges.
MaxLine == 7
\* Longest range list handed to is_line_in_ranges (one above the threshold).
MaxRanges == 6
\* Line numbers and list lengths of the unrestricted range lists.
MaxAnyLine == 3

\* Most lines of one diff output handed to parse_diff_ranges.
MaxDiffLines == 2

\* Largest size of the remote deviation list: records plus tokens.
MaxInput == 6

\* Largest size of the cppcheck XML: <error> plus <location> elements.
MaxElems == 4

\* ------------------------------------------------- parse_diff_ranges
\* A line is the sequence of its characters.
Digits == <<"0", "1", "2", "3", "4", "5", "6", "7", "8", "9">>

IsDigit(c) == \E d \in 1..10 : Digits[d] = c

DigitVal(c) == (CHOOSE d \in 1..10 : Digits[d] = c) - 1

\* git's decimal rendering of a line number or count.
RECURSIVE IntToDigits(_)
IntToDigits(n) ==
    IF n < 10 THEN <<Digits[n + 1]>>
    ELSE IntToDigits(n \div 10) \o <<Digits[(n % 10) + 1]>>

\* int(text) on a run of decimal digits.
RECURSIVE DigitsToInt(_, _)
DigitsToInt(text, acc) ==
    IF text = <<>> THEN acc
    ELSE DigitsToInt(Tail(text), 10 * acc + DigitVal(Head(text)))

int(text) == DigitsToInt(text, 0)

\* line.startswith("@@")
startswith_atat(line) == Len(line) >= 2 /\ line[1] = "@" /\ line[2] = "@"

\* The end (inclusive) of the longest run of digits of `line` that begins at p;
\* p - 1 when line[p] is no digit: the greedy \d+.
RECURSIVE DigitRunEnd(_, _)
DigitRunEnd(line, p) ==
    IF p <= Len(line) /\ IsDigit(line[p]) THEN DigitRunEnd(line, p + 1) ELSE p - 1

\* re.search(r"\+(\d+)(?:,(\d+))?", line): <<>> when there is no match, else
\* <<group(1), group(2)>> with group(2) = <<>> for None.  The leftmost "+"
\* that a digit follows starts the match.
re_search_plus(line) ==
    LET starts == {p \in 1..Len(line) :
                      /\ line[p] = "+"
                      /\ p < Len(line)
                      /\ IsDigit(line[p + 1])}
    IN  IF starts = {} THEN <<>>
        ELSE LET p == CHOOSE q \in starts : \A r \in starts : q <= r
                 e1 == DigitRunEnd(line, p + 1)
                 g1 == SubSeq(line, p + 1, e1)
                 hasTwo == /\ e1 + 2 <= Len(line)
                           /\ line[e1 + 1] = ","
                           /\ IsDigit(line[e1 + 2])
                 g2 == IF hasTwo
                       THEN SubSeq(line, e1 + 2, DigitRunEnd(line, e1 + 2))
                       ELSE <<>>
             IN  <<g1, g2>>

\* The range with its end one line too far.
RangeOfCountOffByOne(start, count) ==
    IF count > 0 THEN <<(<<start, start + count>>)>> ELSE <<>>

\* if count > 0: ranges.append((start, start + count - 1))
RangeOfCount(start, count) ==
    IF count > 0 THEN <<(<<start, start + count - 1>>)>> ELSE <<>>

\* The body of the loop of parse_diff_ranges for one line: the ranges it appends.
RangesOfLine(line) ==
    IF startswith_atat(line)
    THEN LET match == re_search_plus(line)
         IN  IF match # <<>>
             THEN LET start == int(match[1])
                      count == IF match[2] # <<>> THEN int(match[2]) ELSE 1
                  IN  RangeOfCount(start, count)
             ELSE <<>>
    ELSE <<>>

RECURSIVE ParseLines(_, _)
ParseLines(lines, acc) ==
    IF lines = <<>> THEN acc
    ELSE ParseLines(Tail(lines), acc \o RangesOfLine(Head(lines)))

parse_diff_ranges(lines) == ParseLines(lines, <<>>)

\* ------------------------------------------------------ extract_rules
\* The text of a deviation record is a list of tokens joined by one space.  A
\* token is <<kind, n, m>>: the words "Rule", "Directive" and "rule", the
\* number "n.m" and the integer "n".
Tokens ==
    { <<"Rule", 0, 0>>, <<"Directive", 0, 0>>, <<"rule", 0, 0>>,
      <<"num", 1, 2>>, <<"num", 4, 1>>, <<"num", 10, 1>>, <<"int", 12, 0>> }

TokenText(t) ==
    CASE t[1] = "Rule" -> <<"R", "u", "l", "e">>
      [] t[1] = "Directive" -> <<"D", "i", "r", "e", "c", "t", "i", "v", "e">>
      [] t[1] = "rule" -> <<"r", "u", "l", "e">>
      [] t[1] = "num" -> IntToDigits(t[2]) \o <<".">> \o IntToDigits(t[3])
      [] OTHER -> IntToDigits(t[2])

\* deviation["deviation"]: the characters of the record's text.
RECURSIVE JoinTokens(_)
JoinTokens(ts) ==
    IF ts = <<>> THEN <<>>
    ELSE IF Len(ts) = 1 THEN TokenText(ts[1])
    ELSE TokenText(ts[1]) \o <<" ">> \o JoinTokens(Tail(ts))

HasAt(text, p, word) ==
    /\ p + Len(word) - 1 <= Len(text)
    /\ SubSeq(text, p, p + Len(word) - 1) = word

IsSpace(c) == c \in {" ", "\t"}

\* The first position at or after p that holds no whitespace: the greedy \s+.
RECURSIVE SpaceRunEnd(_, _)
SpaceRunEnd(text, p) ==
    IF p <= Len(text) /\ IsSpace(text[p]) THEN SpaceRunEnd(text, p + 1) ELSE p

\* (Rule|Directive)\s+(\d+\.\d+) matched at position p: group(2), or <<>>.
RuleMatchAt(text, p) ==
    LET k == IF HasAt(text, p, <<"R", "u", "l", "e">>) THEN 4
             ELSE IF HasAt(text, p, <<"D", "i", "r", "e", "c", "t", "i", "v", "e">>) THEN 9
             ELSE 0
        w == SpaceRunEnd(text, p + k)
        e1 == DigitRunEnd(text, w)
        e2 == DigitRunEnd(text, e1 + 2)
    IN  IF /\ k > 0
           /\ w > p + k
           /\ e1 >= w
           /\ e1 + 1 <= Len(text)
           /\ text[e1 + 1] = "."
           /\ e2 >= e1 + 2
        THEN SubSeq(text, w, e2)
        ELSE <<>>

\* The search that returns the rightmost match.
re_search_rule_last(text) ==
    LET hits == {p \in 1..Len(text) : RuleMatchAt(text, p) # <<>>}
    IN  IF hits = {} THEN <<>>
        ELSE RuleMatchAt(text, CHOOSE p \in hits : \A q \in hits : p >= q)

\* re.search(r"(Rule|Directive)\s+(\d+\.\d+)", text).group(2) of the leftmost
\* match, <<>> when nothing matches.
re_search_rule(text) ==
    LET hits == {p \in 1..Len(text) : RuleMatchAt(text, p) # <<>>}
    IN  IF hits = {} THEN <<>>
        ELSE RuleMatchAt(text, CHOOSE p \in hits : \A q \in hits : p <= q)

\* f"misra-c2012-{rule_num}"
MisraPrefix == <<"m", "i", "s", "r", "a", "-", "c", "2", "0", "1", "2", "-">>

RuleId(rule_num) == MisraPrefix \o rule_num

RECURSIVE ExtractFrom(_, _)
ExtractFrom(texts, acc) ==
    IF texts = <<>> THEN acc
    ELSE LET rule_num == re_search_rule(Head(texts))
         IN  ExtractFrom(Tail(texts),
                         IF rule_num # <<>> THEN Append(acc, RuleId(rule_num)) ELSE acc)

\* extract_rules(deviations), on the texts of the records.
extract_rules(texts) == ExtractFrom(texts, <<>>)

\* ------------------------------------------- fetch_misra_rules, main
\* Ways the body of the try block of fetch_misra_rules ends: the exception
\* raised, or "ok".  URLError and JSONDecodeError are the two the except
\* clause names.
FetchOutcomes ==
    {"ok", "URLError", "JSONDecodeError", "KeyError", "UnicodeDecodeError"}

Caught(outcome) == outcome \in {"URLError", "JSONDecodeError"}

static_rules ==
    << <<"m", "i", "s", "s", "i", "n", "g", "I", "n", "c", "l", "u", "d", "e", "S", "y", "s", "t", "e", "m">>,
       <<"c", "h", "e", "c", "k", "e", "r", "s", "R", "e", "p", "o", "r", "t">>,
       <<"u", "n", "m", "a", "t", "c", "h", "e", "d", "S", "u", "p", "p", "r", "e", "s", "s", "i", "o", "n">>,
       <<"m", "i", "s", "r", "a", "-", "c", "o", "n", "f", "i", "g">> >>

\* write_config_file: one line per rule of static_rules + rules.
write_config_file(rs) == static_rules \o rs

\* fetch_misra_rules: <<"return", rules>>, or <<"raise", <<>>>> when the
\* exception is none the except clause names.
fetch_misra_rules(outcome, texts) ==
    IF outcome = "ok" THEN <<"return", extract_rules(texts)>>
    ELSE IF Caught(outcome) THEN <<"return", <<>>>>
    ELSE <<"raise", <<>>>>

\* ------------------------------------------- git diff -U0 (the input)
\* New-side start lines and counts git writes in a hunk header; -1 stands
\* for a header without the ",count" part.
Starts == {1, 9, 10, 15}
Counts == {-1, 0, 1, 3}

CountText(c) == IF c = -1 THEN <<>> ELSE <<",">> \o IntToDigits(c)

\* "@@ -10,0 +S[,C] @@" (form 1) and "@@ -7 +S[,C] @@ x +2,9" (form 2, with a
\* section heading after the second "@@").
HunkHeader(form, s, c) ==
    IF form = 1
    THEN <<"@", "@", " ", "-", "1", "0", ",", "0", " ", "+">>
             \o IntToDigits(s) \o CountText(c) \o <<" ", "@", "@">>
    ELSE <<"@", "@", " ", "-", "7", " ", "+">>
             \o IntToDigits(s) \o CountText(c)
             \o <<" ", "@", "@", " ", "x", " ", "+", "2", ",", "9">>

\* The other lines of a diff: file headers, added and removed content (which
\* may itself hold "+digits" or "@@"), the empty line after the last "\n".
OtherLines ==
    << <<"d", "i", "f", "f", " ", "-", "-", "g", "i", "t">>,
       <<"+", "+", "+", " ", "b", "/", "a", ".", "c">>,
       <<"-", "-", "-", " ", "a", "/", "a", ".", "c">>,
       <<"+", "x", " ", "+", "3", ",", "4">>,
       <<"-", "@", "@", " ", "+", "9", " ", "@", "@">>,
       <<>> >>

\* ------------------------------------------------- is_line_in_ranges
\* len(ranges) <= 5 selects the linear scan.
LinearScanMax == 5

\* any(start <= line_num <= end for start, end in ranges)
LinearScan(l, rs) == \E i \in 1..Len(rs) : rs[i][1] <= l /\ l <= rs[i][2]

\* Python's ordering of 2-tuples of ints: lexicographic.
TupleLess(a, b) == a[1] < b[1] \/ (a[1] = b[1] /\ a[2] < b[2])

\* list.insert at the position that keeps `s` ascending (stable).
RECURSIVE InsertSorted(_, _)
InsertSorted(x, s) ==
    IF s = <<>> THEN <<x>>
    ELSE IF TupleLess(x, Head(s)) THEN <<x>> \o s
    ELSE <<Head(s)>> \o InsertSorted(x, Tail(s))

RECURSIVE SortFrom(_, _)
SortFrom(rs, acc) ==
    IF rs = <<>> THEN acc ELSE SortFrom(Tail(rs), InsertSorted(Head(rs), acc))

\* sorted(ranges)
sorted(rs) == SortFrom(rs, <<>>)

\* bisect.bisect_left(a, x) with 0-based lo, hi as in the library:
\*   while lo < hi: mid = (lo+hi)//2; if a[mid] < x: lo = mid+1 else: hi = mid
RECURSIVE BisectLoop(_, _, _, _)
BisectLoop(a, x, lo, hi) ==
    IF lo < hi
    THEN LET mid == (lo + hi) \div 2
         IN  IF TupleLess(a[mid + 1], x)
             THEN BisectLoop(a, x, mid + 1, hi)
             ELSE BisectLoop(a, x, lo, mid)
    ELSE lo

bisect_left(a, x) == BisectLoop(a, x, 0, Len(a))

\* The lookup that inspects the entry at idx alone.
CandidatesIdxOnly(idx) == {idx}

\* for i in [idx - 1, idx]
Candidates(idx) == {idx - 1, idx}

\* The binary-search branch (0-based indices into sorted_ranges).
BinarySearch(l, rs) ==
    \E sorted_ranges \in {sorted(rs)} :
    \E idx \in {bisect_left(sorted_ranges, <<l, l>>)} :
    \E i \in Candidates(idx) :
        /\ 0 <= i /\ i < Len(sorted_ranges)
        /\ sorted_ranges[i + 1][1] <= l
        /\ l <= sorted_ranges[i + 1][2]

is_line_in_ranges(l, rs) ==
    IF Len(rs) <= LinearScanMax THEN LinearScan(l, rs) ELSE BinarySearch(l, rs)

\* ------------------------------------------------ get_changed_ranges
\* The files the findings name.
Files == { <<"a", ".", "c">>, <<"b", ".", "c">> }

\* What running `git diff -U0 <range> -- <file>` does: subprocess.run raises
\* ("raise"), git exits with an error and empty stdout ("error"), or git
\* prints a diff of one hunk ("one": lines 15-17) or of seven hunks ("many":
\* lines 1, 3-4, 6, 8, 10-12, 18-20 and a pure deletion).
GitOutcomes == {"raise", "error", "one", "many"}

\* result.stdout.split("\n")
GitStdout(outcome) ==
    CASE outcome = "one" ->
            << OtherLines[1], OtherLines[3], OtherLines[2],
               HunkHeader(1, 15, 3), OtherLines[4], OtherLines[4], OtherLines[4],
               <<>> >>
      [] outcome = "many" ->
            << OtherLines[1], OtherLines[3], OtherLines[2],
               HunkHeader(2, 1, -1), HunkHeader(1, 3, 2), HunkHeader(1, 5, 0),
               HunkHeader(2, 6, 1), HunkHeader(1, 8, -1), HunkHeader(2, 10, 3),
               HunkHeader(1, 18, 3), <<>> >>
      [] OTHER -> << <<>> >>

\* The hunks of those diffs, as <<kind, start, count>>.
DiffHunks(outcome) ==
    CASE outcome = "one" -> << <<"hunk", 15, 3>> >>
      [] outcome = "many" ->
            << <<"hunk", 1, -1>>, <<"hunk", 3, 2>>, <<"hunk", 5, 0>>,
               <<"hunk", 6, 1>>, <<"hunk", 8, -1>>, <<"hunk", 10, 3>>,
               <<"hunk", 18, 3>> >>
      [] OTHER -> <<>>

\* parse_diff_ranges(result.stdout), for each way git can answer.
ParsedStdout ==
    [o \in GitOutcomes \ {"raise"} |-> parse_diff_ranges(GitStdout(o))]

\* get_changed_ranges without its try block: the exception of subprocess.run
\* leaves the function.
get_changed_ranges_uncaught(file_path, range_valid, g) ==
    IF ~range_valid \/ g[file_path] = "raise" THEN <<"raise">>
    ELSE <<"return", ParsedStdout[g[file_path]]>>

\* get_changed_ranges: <<"raise">> for the ValueError of a malformed diff
\* range, else <<"return", ranges>>; an exception of subprocess.run is caught
\* and gives [].
get_changed_ranges(file_path, range_valid, g) ==
    IF ~range_valid THEN <<"raise">>
    ELSE IF g[file_path] = "raise" THEN <<"return", <<>>>>
    ELSE <<"return", ParsedStdout[g[file_path]]>>

\* ------------------------------------ filter_errors_by_changed_lines
\* An <error> is [id, locs]; a <location> is <<file, line>>, both texts, the
\* file <<>> when the attribute is missing or empty.
MisraTag == <<"m", "i", "s", "r", "a", "-", "c", "2", "0", "1", "2">>

\* error.get("id", "").startswith("misra-c2012")
startswith(text, prefix) == HasAt(text, 1, prefix)

\* int(location.get("line", 0))
LineOf(loc) == IF loc[2] = <<>> THEN 0 ELSE int(loc[2])

\* file_ranges_cache = {}
EmptyCache == [f \in Files |-> <<"miss", <<>>>>]

RECURSIVE ScanLocationsBreakEarly(_, _, _, _, _)
\* The loop with its break one level out: it ends after the first location
\* that has a file name and a positive line.
ScanLocationsBreakEarly(locs, j, c, range_valid, g) ==
    IF j > Len(locs) THEN <<"ok", FALSE, c>>
    ELSE LET file_path == locs[j][1]
             ln == LineOf(locs[j])
         IN  IF file_path # <<>> /\ ln > 0
             THEN Only({ IF r[1] = "raise" THEN <<"raise", FALSE, c>>
                         ELSE <<"ok", is_line_in_ranges(ln, r[2]),
                                [c EXCEPT ![file_path] = <<"hit", r[2]>>]>>
                         : r \in {IF c[file_path][1] = "miss"
                                  THEN get_changed_ranges(file_path, range_valid, g)
                                  ELSE <<"return", c[file_path][2]>>} })
             ELSE ScanLocationsBreakEarly(locs, j + 1, c, range_valid, g)

\* The loop over the locations of one error from location j on:
\* <<status, appended, cache>>, status "raise" when get_changed_ranges raised.
RECURSIVE ScanLocations(_, _, _, _, _)
ScanLocations(locs, j, c, range_valid, g) ==
    IF j > Len(locs) THEN <<"ok", FALSE, c>>
    ELSE LET file_path == locs[j][1]
             ln == LineOf(locs[j])
         IN  IF file_path # <<>> /\ ln > 0
             THEN Only({ IF r[1] = "raise" THEN <<"raise", FALSE, c>>
                         ELSE Only({ IF is_line_in_ranges(ln, r[2])
                                     THEN <<"ok", TRUE, c2>>
                                     ELSE ScanLocations(locs, j + 1, c2, range_valid, g)
                                     : c2 \in {[c EXCEPT ![file_path] = <<"hit", r[2]>>]} })
                         : r \in {IF c[file_path][1] = "miss"
                                  THEN get_changed_ranges(file_path, range_valid, g)
                                  ELSE <<"return", c[file_path][2]>>} })
             ELSE ScanLocations(locs, j + 1, c, range_valid, g)

\* The loop over root.findall(".//error") from error i on:
\* <<status, filtered_errors, cache>>.
RECURSIVE ScanErrors(_, _, _, _, _, _)
ScanErrors(errors, i, c, acc, range_valid, g) ==
    IF i > Len(errors) THEN <<"ok", acc, c>>
    ELSE IF ~startswith(errors[i].id, MisraTag)
    THEN ScanErrors(errors, i + 1, c, acc, range_valid, g)
    ELSE Only({ IF r[1] = "raise" THEN <<"raise", acc, r[3]>>
                ELSE ScanErrors(errors, i + 1, r[3],
                                IF r[2] THEN Append(acc, i) ELSE acc,
                                range_valid, g)
                : r \in {ScanLocations(errors[i].locs, 1, c, range_valid, g)} })

filter_errors_by_changed_lines(errors, range_valid, g) ==
    ScanErrors(errors, 1, EmptyCache, <<>>, range_valid, g)

\* -------------------------------------------------- write_csv_output
\* None for --max-size.
NoCap == -1

\* len of the header row "misra-c2012-rule,severity,file,line,column" as
\* csv.writer writes it, with its "\r\n".
HeaderSize == 44

\* text.replace(old, ""), from position p on.
RECURSIVE RemoveAll(_, _, _)
RemoveAll(text, old, p) ==
    IF p > Len(text) THEN <<>>
    ELSE IF HasAt(text, p, old) THEN RemoveAll(text, old, p + Len(old))
    ELSE <<text[p]>> \o RemoveAll(text, old, p + 1)

\* error.get("severity", "") and location.get("column", "") of every finding.
Severity == <<"s", "t", "y", "l", "e">>
Column == <<"5">>

\* [error_id, severity, file_path, line_num, column]
RowOf(error, loc) ==
    <<RemoveAll(error.id, MisraPrefix, 1), Severity, loc[1], loc[2], Column>>

\* len(f"{error_id},{severity},{file_path},{line_num},{column}")
RowChars(row) == Len(row[1]) + Len(row[2]) + Len(row[3]) + Len(row[4]) + Len(row[5]) + 4

\* row_size: the row with "\n".
RowSize(row) == RowChars(row) + 1

\* What writer.writerow adds to the file: the row with "\r\n" (no field of
\* the model needs quoting).
RowBytes(row) == RowChars(row) + 2

\* One row per error: its first location alone.
RowsOfFirstLoc(error, locs) ==
    IF locs = <<>> THEN <<>> ELSE <<RowOf(error, Head(locs))>>

\* The rows of the two nested loops, in order.
RECURSIVE RowsOfLocs(_, _)
RowsOfLocs(error, locs) ==
    IF locs = <<>> THEN <<>>
    ELSE <<RowOf(error, Head(locs))>> \o RowsOfLocs(error, Tail(locs))

RECURSIVE RowsToWrite(_, _)
RowsToWrite(errors, flt) ==
    IF flt = <<>> THEN <<>>
    ELSE RowsOfLocs(errors[Head(flt)], errors[Head(flt)].locs)
             \o RowsToWrite(errors, Tail(flt))

\* if max_size: ... if csvfile.tell() + row_size > max_size: return
LimitReached(max_size, tell, row) ==
    max_size # NoCap /\ max_size # 0 /\ tell + RowSize(row) > max_size

RECURSIVE WriteRows(_, _, _, _)
WriteRows(todo, rows, tell, max_size) ==
    IF todo = <<>> THEN [written |-> TRUE, rows |-> rows, size |-> tell]
    ELSE IF LimitReached(max_size, tell, Head(todo))
    THEN [written |-> TRUE, rows |-> rows, size |-> tell]
    ELSE WriteRows(Tail(todo), Append(rows, Head(todo)),
                   tell + RowBytes(Head(todo)), max_size)

write_csv_output(errors, flt, max_size) ==
    WriteRows(RowsToWrite(errors, flt), <<>>, HeaderSize, max_size)

NoCsv == [written |-> FALSE, rows |-> <<>>, size |-> 0]

\* ----------------------------------- filter_cppcheck_results, __main__
\* What can go wrong apart from the diff: argparse rejects the command line
\* ("usage"), ET.parse raises ("xml_missing", "xml_malformed"), opening the
\* output file raises ("csv_oserror").
Faults == {"none", "usage", "xml_missing", "xml_malformed", "csv_oserror"}

\* A handler that names ValueError alone.
ExceptCatchesValueError(exc) == exc = "ValueError"

\* The classes `except Exception` catches, among those raised here.
ExceptionClasses == {"FileNotFoundError", "ParseError", "ValueError", "OSError"}

ExceptCatches(exc) == exc \in ExceptionClasses

\* The body of the try block: [exc, cache, filtered, csv], exc the exception
\* that ended it or "none".
TryBody(errors, flt_fault, a, g) ==
    LET stop(exc, c) == [exc |-> exc, cache |-> c, filtered |-> <<>>, csv |-> NoCsv]
    IN  IF flt_fault = "xml_missing" THEN stop("FileNotFoundError", EmptyCache)
        ELSE IF flt_fault = "xml_malformed" THEN stop("ParseError", EmptyCache)
        ELSE Only({ IF r[1] = "raise" THEN stop("ValueError", r[3])
                    ELSE IF flt_fault = "csv_oserror" THEN stop("OSError", r[3])
                    ELSE [exc |-> "none", cache |-> r[3], filtered |-> r[2],
                          csv |-> write_csv_output(errors, r[2], a.max_size)]
                    : r \in {filter_errors_by_changed_lines(errors, a.range_valid, g)} })

\* filter_cppcheck_results: [raised, cache, filtered, csv, num_issues]; raised
\* is the exception that leaves the function, "none" when it returns.
filter_cppcheck_results(errors, flt_fault, a, g) ==
    Only({ IF b.exc = "none"
           THEN [raised |-> "none", cache |-> b.cache, filtered |-> b.filtered,
                 csv |-> b.csv, num_issues |-> Len(b.filtered)]
           ELSE [raised |-> IF ExceptCatches(b.exc) THEN "none" ELSE b.exc,
                 cache |-> b.cache, filtered |-> <<>>, csv |-> b.csv,
                 num_issues |-> 0]
           : b \in {TryBody(errors, flt_fault, a, g)} })

\* The exit status: 2 from argparse, 1 from an uncaught exception, else the
\* 0 of sys.exit(0).
ExitStatus(flt_fault, raised) ==
    IF flt_fault = "usage" THEN 2 ELSE IF raised # "none" THEN 1 ELSE 0

\* ---------------------------------------------- range-lookup machines
Disjoint(r, q) == r[2] < q[1] \/ q[2] < r[1]

PairwiseDisjoint(rs) ==
    \A i, j \in 1..Len(rs) : i # j => Disjoint(rs[i], rs[j])

InitRanges ==
    /\ ranges = <<>>
    /\ line_num = 0
    /\ found = FALSE
    /\ rpc = "build"

InitDiff ==
    /\ diff_output = <<>>
    /\ hunks = <<>>
    /\ parsed = <<>>
    /\ dpc = "build"

InitConvert ==
    /\ deviations = <<>>
    /\ fetched = "ok"
    /\ rules = <<>>
    /\ suppress_file = <<"absent">>
    /\ cpc = "build"

InitFilter ==
    /\ root = <<>>
    /\ fault = "none"
    /\ args = [range_valid |-> TRUE, max_size |-> NoCap]
    /\ git = [f \in Files |-> "error"]
    /\ cache = EmptyCache
    /\ filtered = <<>>
    /\ csv = NoCsv
    /\ num_issues = 0
    /\ exit_status = -1
    /\ fpc = "build"

Init == InitRanges /\ InitDiff /\ InitConvert /\ InitFilter

\* The caller appends one more (start, end) with start <= end, disjoint from
\* the ranges already there, at the end of the list.
AppendDisjoint ==
    /\ rpc = "build"
    /\ Len(ranges) < MaxRanges
    /\ \E s \in 1..MaxLine : \E e \in s..MaxLine :
          /\ \A i \in 1..Len(ranges) : Disjoint(<<s, e>>, ranges[i])
          /\ ranges' = Append(ranges, <<s, e>>)
    /\ UNCHANGED <<line_num, found, rpc, diffVars, convVars, filterVars>>

\* The caller appends any (start, end) with start <= end.
AppendAny ==
    /\ rpc = "build"
    /\ Len(ranges) < MaxRanges
    /\ \E s \in 1..MaxAnyLine : \E e \in s..MaxAnyLine :
          ranges' = Append(ranges, <<s, e>>)
    /\ UNCHANGED <<line_num, found, rpc, diffVars, convVars, filterVars>>

CallDisjoint ==
    /\ rpc = "build"
    /\ rpc' = "done"
    /\ \E l \in 0..(MaxLine + 1) :
          /\ line_num' = l
          /\ found' = is_line_in_ranges(l, ranges)
    /\ UNCHANGED <<ranges, diffVars, convVars, filterVars>>

CallAny ==
    /\ rpc = "build"
    /\ rpc' = "done"
    /\ \E l \in 0..(MaxAnyLine + 1) :
          /\ line_num' = l
          /\ found' = is_line_in_ranges(l, ranges)
    /\ UNCHANGED <<ranges, diffVars, convVars, filterVars>>

NextDisjoint == AppendDisjoint \/ CallDisjoint
NextAny == AppendAny \/ CallAny

SpecDisjoint == Init /\ [][NextDisjoint]_vars
SpecAny == Init /\ [][NextAny]_vars

\* ------------------------------------------------ diff-parsing machine
\* git writes one hunk header line.
GitWriteHunk ==
    /\ dpc = "build"
    /\ Len(diff_output) < MaxDiffLines
    /\ \E form \in 1..2 : \E s \in Starts : \E c \in Counts :
          /\ diff_output' = Append(diff_output, HunkHeader(form, s, c))
          /\ hunks' = Append(hunks, <<"hunk", s, c>>)
    /\ UNCHANGED <<parsed, dpc, rangeVars, convVars, filterVars>>

\* git writes one line that is no hunk header.
GitWriteOther ==
    /\ dpc = "build"
    /\ Len(diff_output) < MaxDiffLines
    /\ \E k \in 1..Len(OtherLines) :
          /\ diff_output' = Append(diff_output, OtherLines[k])
          /\ hunks' = Append(hunks, <<"other", 0, 0>>)
    /\ UNCHANGED <<parsed, dpc, rangeVars, convVars, filterVars>>

CallParseDiffRanges ==
    /\ dpc = "build"
    /\ parsed' = parse_diff_ranges(diff_output)
    /\ dpc' = "done"
    /\ UNCHANGED <<diff_output, hunks, rangeVars, convVars, filterVars>>

NextDiff == GitWriteHunk \/ GitWriteOther \/ CallParseDiffRanges

SpecDiff == Init /\ [][NextDiff]_vars

\* What C6 states for one line git wrote.
C6_RangeOfHunk(h) ==
    IF h[1] # "hunk" THEN <<>>
    ELSE IF h[3] = -1 THEN <<(<<h[2], h[2]>>)>>
    ELSE IF h[3] > 0 THEN <<(<<h[2], h[2] + h[3] - 1>>)>>
    ELSE <<>>

RECURSIVE C6_Expected(_)
C6_Expected(hs) ==
    IF hs = <<>> THEN <<>> ELSE C6_RangeOfHunk(Head(hs)) \o C6_Expected(Tail(hs))

\* C6: parse_diff_ranges yields, in order, (s, s+c-1) for each hunk header
\* with count c > 0, (s, s) for a header without count, nothing for c = 0 and
\* nothing for a line that does not start with "@@"; every range has
\* start <= end.
C6_ParseDiffRanges ==
    dpc = "done" =>
        /\ parsed = C6_Expected(hunks)
        /\ \A i \in 1..Len(parsed) : parsed[i][1] <= parsed[i][2]

\* The header "@@ -10,0 +15,3 @@" alone was parsed into (15, 17).
C6_Witness ==
    /\ dpc = "done"
    /\ diff_output = <<HunkHeader(1, 15, 3)>>
    /\ parsed = <<(<<15, 17>>)>>

\* ------------------------------------------------ rule-conversion machine
RECURSIVE InputSize(_)
InputSize(devs) ==
    IF devs = <<>> THEN 0 ELSE 1 + Len(Head(devs)) + InputSize(Tail(devs))

RECURSIVE Texts(_)
Texts(devs) ==
    IF devs = <<>> THEN <<>> ELSE <<JoinTokens(Head(devs))>> \o Texts(Tail(devs))

\* The remote document gets one more deviation record, its text still empty.
AddDeviation ==
    /\ cpc = "build"
    /\ InputSize(deviations) < MaxInput
    /\ deviations' = Append(deviations, <<>>)
    /\ UNCHANGED <<fetched, rules, suppress_file, cpc, rangeVars, diffVars, filterVars>>

\* The text of the last record gets one more token.
AddToken ==
    /\ cpc = "build"
    /\ deviations # <<>>
    /\ InputSize(deviations) < MaxInput
    /\ \E t \in Tokens :
          deviations' = [deviations EXCEPT ![Len(deviations)] = Append(@, t)]
    /\ UNCHANGED <<fetched, rules, suppress_file, cpc, rangeVars, diffVars, filterVars>>

\* main(): fetch_misra_rules, then write_config_file unless the fetch raised.
\* A fetch that fails delivers no deviation list.
RunMain ==
    /\ cpc = "build"
    /\ \E outcome \in FetchOutcomes :
          /\ outcome # "ok" => deviations = <<>>
          /\ \E r \in {fetch_misra_rules(outcome, Texts(deviations))} :
              /\ fetched' = outcome
              /\ rules' = r[2]
              /\ IF r[1] = "return"
                 THEN /\ suppress_file' = write_config_file(r[2])
                      /\ cpc' = "done"
                 ELSE /\ suppress_file' = <<"absent">>
                      /\ cpc' = "crashed"
    /\ UNCHANGED <<deviations, rangeVars, diffVars, filterVars>>

NextConvert == AddDeviation \/ AddToken \/ RunMain

SpecConvert == Init /\ [][NextConvert]_vars

\* What C7 states for one record: the identifier of the first keyword token
\* that a number token follows.
C7_FirstRef(ts) ==
    LET refs == {i \in 1..(Len(ts) - 1) :
                    ts[i][1] \in {"Rule", "Directive"} /\ ts[i + 1][1] = "num"}
    IN  IF refs = {} THEN <<>>
        ELSE LET i == CHOOSE j \in refs : \A k \in refs : j <= k
             IN  <<MisraPrefix \o IntToDigits(ts[i + 1][2]) \o <<".">>
                                \o IntToDigits(ts[i + 1][3])>>

RECURSIVE C7_Expected(_)
C7_Expected(devs) ==
    IF devs = <<>> THEN <<>> ELSE C7_FirstRef(Head(devs)) \o C7_Expected(Tail(devs))

\* C7: extract_rules yields, in input order, "misra-c2012-N.M" for each record
\* whose text holds "Rule N.M" or "Directive N.M" (the first such reference of
\* the record) and nothing for the other records.
C7_ExtractRules ==
    (cpc = "done" /\ fetched = "ok") => rules = C7_Expected(deviations)

\* The list "Rule 1.2", "Directive 4.1" gave misra-c2012-1.2, misra-c2012-4.1.
C7_Witness ==
    /\ cpc = "done"
    /\ fetched = "ok"
    /\ deviations = << <<(<<"Rule", 0, 0>>), (<<"num", 1, 2>>)>>,
                       <<(<<"Directive", 0, 0>>), (<<"num", 4, 1>>)>> >>
    /\ rules = << MisraPrefix \o <<"1", ".", "2">>, MisraPrefix \o <<"4", ".", "1">> >>

\* C3: whenever the fetch or the parse of the remote list fails, the script
\* ends having written a suppression file of exactly the four static rules.
C3_FallbackOnAnyFailure ==
    (cpc # "build" /\ fetched # "ok") =>
        (cpc = "done" /\ suppress_file = static_rules)

\* ------------------------------------------------------ filter machine
\* The ids of the findings: a MISRA rule and another checker's.
Ids == { MisraPrefix \o <<"1", ".", "2">>, <<"n", "u", "l", "l", "P", "o", "i", "n", "t", "e", "r">> }

\* Values of --max-size: absent, 0, and a cap one row above the header.
MaxSizes == {NoCap, 0, 63}

\* The line attributes of the locations.
FindingLines == {0, 16, 20}

RECURSIVE DocSize(_)
DocSize(errors) ==
    IF errors = <<>> THEN 0 ELSE 1 + Len(Head(errors).locs) + DocSize(Tail(errors))

\* cppcheck writes one more <error>, still without <location>.
CppcheckAddError ==
    /\ fpc = "build"
    /\ DocSize(root) < MaxElems
    /\ \E id \in Ids : root' = Append(root, [id |-> id, locs |-> <<>>])
    /\ UNCHANGED <<fault, args, git, cache, filtered, csv, num_issues,
                   exit_status, fpc, rangeVars, diffVars, convVars>>

\* cppcheck writes one more <location> into the last <error>: a file and a
\* line, or a location without file.
CppcheckAddLocation ==
    /\ fpc = "build"
    /\ root # <<>>
    /\ DocSize(root) < MaxElems
    /\ \E file \in Files \cup {<<>>} : \E l \in FindingLines :
          /\ file = <<>> => l = 16
          /\ root' = [root EXCEPT ![Len(root)].locs =
                          Append(@, <<file, IntToDigits(l)>>)]
    /\ UNCHANGED <<fault, args, git, cache, filtered, csv, num_issues,
                   exit_status, fpc, rangeVars, diffVars, convVars>>

\* One run of the script: argparse, filter_cppcheck_results, sys.exit.
RunFilter ==
    /\ fpc = "build"
    /\ \E fl \in Faults : \E rv \in BOOLEAN : \E ms \in MaxSizes :
       \E g \in [Files -> GitOutcomes] :
          /\ fl # "none" => (rv /\ ms = NoCap /\ g = [f \in Files |-> "error"])
          /\ ~rv => (ms = NoCap /\ g = [f \in Files |-> "error"])
          /\ \E a \in {[range_valid |-> rv, max_size |-> ms]} :
             \E r \in {filter_cppcheck_results(root, fl, a, g)} :
                /\ fault' = fl
                /\ args' = a
                /\ git' = g
                /\ IF fl = "usage"
                   THEN UNCHANGED <<cache, filtered, csv, num_issues>>
                   ELSE /\ cache' = r.cache
                        /\ filtered' = r.filtered
                        /\ csv' = r.csv
                        /\ num_issues' = r.num_issues
                /\ exit_status' = ExitStatus(fl, r.raised)
                /\ fpc' = "exited"
    /\ UNCHANGED <<root, rangeVars, diffVars, convVars>>

NextFilter == CppcheckAddError \/ CppcheckAddLocation \/ RunFilter

SpecFilter == Init /\ [][NextFilter]_vars

\* The run reached the end of filter_errors_by_changed_lines.
FilterReturned ==
    fpc = "exited" /\ fault \in {"none", "csv_oserror"} /\ args.range_valid

\* The changed ranges a diff states, none when the diff could not be run.
RangesOfOutcome ==
    [o \in GitOutcomes |-> IF o = "raise" THEN <<>> ELSE C6_Expected(DiffHunks(o))]

\* The changed ranges of a file.
ChangedRanges(f) == RangesOfOutcome[git[f]]

\* A location with a file name and a positive line inside a changed range.
OnChangedLine(loc) ==
    /\ loc[1] # <<>>
    /\ int(loc[2]) > 0
    /\ \E k \in 1..Len(ChangedRanges(loc[1])) :
          /\ ChangedRanges(loc[1])[k][1] <= int(loc[2])
          /\ int(loc[2]) <= ChangedRanges(loc[1])[k][2]

Wanted(error) ==
    /\ startswith(error.id, MisraTag)
    /\ \E j \in 1..Len(error.locs) : OnChangedLine(error.locs[j])

RECURSIVE C1_Expected(_, _)
C1_Expected(errors, i) ==
    IF i > Len(errors) THEN <<>>
    ELSE (IF Wanted(errors[i]) THEN <<i>> ELSE <<>>) \o C1_Expected(errors, i + 1)

\* C1: filter_errors_by_changed_lines returns exactly the findings whose id
\* starts with "misra-c2012" and that have a location with a file name and a
\* positive line inside a changed range of that file, each once, in document
\* order.
C1_FilterExact ==
    FilterReturned => filtered = C1_Expected(root, 1)

\* With the changed range (15, 17) of a file, its finding at line 16 is
\* returned and its finding at line 20 is not.
C1_Witness ==
    /\ FilterReturned
    /\ Len(root) = 2
    /\ filtered = <<1>>
    /\ \E f \in Files :
          /\ cache[f] = <<"hit", <<(<<15, 17>>)>> >>
          /\ root[1].locs = << <<f, <<"1", "6">> >> >>
          /\ root[2].locs = << <<f, <<"2", "0">> >> >>
          /\ startswith(root[2].id, MisraTag)

\* C2: with a size cap the CSV file never exceeds max_size bytes.
C2_CsvWithinCap ==
    (fpc = "exited" /\ csv.written /\ args.max_size > 0)
        => csv.size <= args.max_size

\* C4 as stated: every run of the filter script ends with exit status 0.
C4_AlwaysExitZero ==
    fpc = "exited" => exit_status = 0

\* C4 amended: every run whose command line argparse accepts ends with exit
\* status 0, whatever the XML, the diff range and the diff do.
C4_ExitZeroOnceParsed ==
    (fpc = "exited" /\ fault # "usage") => exit_status = 0

\* A run that met a malformed diff range while a finding needed its file's
\* ranges, and still ended with status 0 and no issue counted.
C4_Witness ==
    /\ fpc = "exited"
    /\ fault = "none"
    /\ ~args.range_valid
    /\ \E i \in 1..Len(root) :
          /\ startswith(root[i].id, MisraTag)
          /\ \E j \in 1..Len(root[i].locs) :
                root[i].locs[j][1] # <<>> /\ int(root[i].locs[j][2]) > 0
    /\ num_issues = 0
    /\ ~csv.written
    /\ exit_status = 0

DiffFailed(f) == git[f] \in {"raise", "error"}

\* Every location of the finding that has a file name names file f.
OnlyIn(error, f) ==
    \A j \in 1..Len(error.locs) : error.locs[j][1] \in {<<>>, f}

InFiltered(i) == \E k \in 1..Len(filtered) : filtered[k] = i

\* C5: when the diff of a file fails, that file's range set is empty, the
\* findings located only in it are left out, and the findings on changed lines
\* of the other files are still returned and written to the CSV.
C5_FailedDiffIsolated ==
    FilterReturned =>
        \A f \in Files : DiffFailed(f) =>
            /\ cache[f][2] = <<>>
            /\ \A i \in 1..Len(root) : OnlyIn(root[i], f) => ~InFiltered(i)
            /\ \A i \in 1..Len(root) :
                  Wanted(root[i]) =>
                      /\ InFiltered(i)
                      /\ (fault = "none" /\ args.max_size = NoCap) =>
                            \A j \in 1..Len(root[i].locs) :
                                \E k \in 1..Len(csv.rows) :
                                    csv.rows[k] = RowOf(root[i], root[i].locs[j])

\* The diff of one file could not be run, a MISRA finding in that file was left
\* out, and a finding on a changed line of the other file is in the CSV.
C5_Witness ==
    /\ FilterReturned
    /\ fault = "none"
    /\ \E f \in Files : \E i, k \in 1..Len(root) :
          /\ git[f] = "raise"
          /\ cache[f] = <<"hit", <<>>>>
          /\ startswith(root[i].id, MisraTag)
          /\ root[i].locs # <<>>
          /\ OnlyIn(root[i], f)
          /\ root[i].locs[1][1] = f
          /\ ~InFiltered(i)
          /\ InFiltered(k)
          /\ csv.rows = <<RowOf(root[k], root[k].locs[1])>>

\* The rows C10 states: one per location of each returned finding, in order.
RECURSIVE C10_Rows(_, _, _)
C10_Rows(errors, k, j) ==
    IF k > Len(filtered) THEN <<>>
    ELSE IF j > Len(errors[filtered[k]].locs) THEN C10_Rows(errors, k + 1, 1)
    ELSE << <<RemoveAll(errors[filtered[k]].id, MisraPrefix, 1), Severity,
              errors[filtered[k]].locs[j][1], errors[filtered[k]].locs[j][2],
              Column>> >> \o C10_Rows(errors, k, j + 1)

RECURSIVE C10_LocCount(_, _)
C10_LocCount(errors, k) ==
    IF k > Len(filtered) THEN 0
    ELSE Len(errors[filtered[k]].locs) + C10_LocCount(errors, k + 1)

\* C10: without a size cap the CSV holds, after the header, one row per
\* location of every returned finding, in order: as many rows as those
\* findings have locations.
C10_RowPerLocation ==
    (FilterReturned /\ fault = "none" /\ args.max_size = NoCap) =>
        /\ csv.written
        /\ csv.rows = C10_Rows(root, 1, 1)
        /\ Len(csv.rows) = C10_LocCount(root, 1)

\* One returned finding with two locations, the second on no changed line:
\* two rows for one issue, one of them naming the unchanged line.
C10_Witness ==
    /\ FilterReturned
    /\ fault = "none"
    /\ args.max_size = NoCap
    /\ num_issues = 1
    /\ Len(csv.rows) = 2
    /\ Len(root[filtered[1]].locs) = 2
    /\ OnChangedLine(root[filtered[1]].locs[1])
    /\ root[filtered[1]].locs[2][1] # <<>>
    /\ int(root[filtered[1]].locs[2][2]) > 0
    /\ ~OnChangedLine(root[filtered[1]].locs[2])
    /\ csv.rows[2][3] = root[filtered[1]].locs[2][1]
    /\ csv.rows[2][4] = root[filtered[1]].locs[2][2]

\* C9: on pairwise disjoint ranges with start <= end, more than five of them,
\* the value is_line_in_ranges returns (binary-search branch) is the value of
\* the linear scan over all the ranges.
C9_BinaryEqualsLinearOnDisjoint ==
    (rpc = "done" /\ Len(ranges) > LinearScanMax)
        => found = LinearScan(line_num, ranges)

\* A call on six disjoint, unsorted ranges that answered True through a
\* candidate at idx - 1.
C9_Witness ==
    /\ rpc = "done"
    /\ found = TRUE
    /\ Len(ranges) > LinearScanMax
    /\ PairwiseDisjoint(ranges)
    /\ ranges # sorted(ranges)
    /\ \E i \in 1..Len(ranges) : ranges[i][1] < line_num /\ line_num <= ranges[i][2]

\* C8: for every list of ranges, is_line_in_ranges is True exactly when some
\* range of the list holds the line.
C8_ExactForEveryList ==
    rpc = "done" => found = LinearScan(line_num, ranges)

====
